---- MODULE Spec2Model ----
(***************************************************************************)
(* A model of line_sticker_resize.py: hex colour parsing, corner           *)
(* background detection, soft background keying, aspect-preserving resize  *)
(* and pad, and the batch loop of main.                                    *)
(*                                                                         *)
(* Each component has its own specification (ParseSpec, DetectSpec,        *)
(* KeySpec, ResizeSpec, MainSpec); the variables of the other components   *)
(* stay at their idle values.                                              *)
(***************************************************************************)
EXTENDS Integers, Sequences, FiniteSets, TLC

VARIABLES
    hexStr,         \* parse_hex_color: the argument s, a sequence of characters
    hexOut,         \* parse_hex_color: st = "none" before the call, then the result
    im,             \* make_bg_transparent: the image [w, h, px], px row-major RGBA
    im0,            \* the image before the first keying pass
    imPrev,         \* the image before the latest keying pass
    bg,             \* make_bg_transparent: the background colour argument
    tolerance,      \* make_bg_transparent: the tolerance argument
    passes,         \* number of calls of make_bg_transparent so far
    keyErr,         \* "none", or the exception the latest call raised
    cim,            \* detect_bg_color: the image [w, h, px], px on its corner coordinates
    detected,       \* detect_bg_color: <<>> before the call, then <<the returned colour>>
    srcW, srcH,     \* resize_and_pad: im.size of the source image
    canvas,         \* resize_and_pad: st = "none" before the call, then the result
    inKind,         \* main: the input path is a "file", a "dir" or "missing"
    listing,        \* main: the input file, or what in_path.rglob("*") yields, in order
    files,          \* main: the list files
    idx,            \* main: position of the for loop in files (1-based)
    count,          \* main: the counter count
    saved,          \* output path -> the input file whose result was saved there last
    log,            \* main: the lines printed, as events
    pc              \* main: "enumerate", "loop", "done" or "exit" (SystemExit)

keyVars == <<im, im0, imPrev, bg, tolerance, passes, keyErr>>
parseVars == <<hexStr, hexOut>>
detectVars == <<cim, detected>>
resizeVars == <<srcW, srcH, canvas>>
mainVars == <<inKind, listing, files, idx, count, saved, log, pc>>
vars == <<parseVars, keyVars, detectVars, resizeVars, mainVars>>

----------------------------------------------------------------------------
(* Program constants *)

TARGET_W == 370
TARGET_H == 320

(* Bounds of the model *)

MaxDim == 1000      \* source images are 0..MaxDim pixels wide and high
MaxPix == 2         \* keyed images have 1..MaxPix pixels (w * h)
MaxColor == 7       \* keyed pixels take the colours Color(0..MaxColor)
MaxTol == 2         \* keying tolerance is 0..MaxTol
MaxPasses == 2      \* keying passes applied to one image
MaxHexLen == 6      \* strings given to parse_hex_color have 0..MaxHexLen characters
MaxListing == 3     \* a directory input holds 0..MaxListing files
MaxSide == 2        \* images given to detect_bg_color are 1..MaxSide wide and high
MaxCornerColor == 3 \* their corner pixels take the colours CornerColor(0..MaxCornerColor)

----------------------------------------------------------------------------
(* Idle values: a component that a specification does not run *)

NoImage == [w |-> 0, h |-> 0, px |-> <<>>]

ParseIdle == hexStr = <<>> /\ hexOut = [st |-> "idle"]

KeyIdle ==
    /\ im = NoImage /\ im0 = NoImage /\ imPrev = NoImage
    /\ bg = <<0, 0, 0>> /\ tolerance = 0 /\ passes = 0 /\ keyErr = "none"

DetectIdle == cim = NoImage /\ detected = <<>>

ResizeIdle == srcW = 0 /\ srcH = 0 /\ canvas = [st |-> "idle"]

MainIdle ==
    /\ inKind = "idle" /\ listing = <<>> /\ files = <<>> /\ idx = 0 /\ count = 0
    /\ saved = <<>> /\ log = <<>> /\ pc = "idle"

----------------------------------------------------------------------------
(* parse_hex_color *)

HexDigits == {"0", "1", "2", "3", "4", "5", "6", "7", "8", "9",
              "a", "b", "c", "d", "e", "f", "A", "B", "C", "D", "E", "F"}
Signs == {"+", "-"}
Whitespace == {" "}

\* The characters of the strings the model passes in: three hex digits, a
\* letter that is no hex digit, a sign, a blank and the prefix character.
Alphabet == {"0", "a", "F", "g", "-", " ", "#"}

HexVal(ch) ==
    CASE ch = "0" -> 0 [] ch = "1" -> 1 [] ch = "2" -> 2 [] ch = "3" -> 3
      [] ch = "4" -> 4 [] ch = "5" -> 5 [] ch = "6" -> 6 [] ch = "7" -> 7
      [] ch = "8" -> 8 [] ch = "9" -> 9
      [] ch \in {"a", "A"} -> 10 [] ch \in {"b", "B"} -> 11
      [] ch \in {"c", "C"} -> 12 [] ch \in {"d", "D"} -> 13
      [] ch \in {"e", "E"} -> 14 [] ch \in {"f", "F"} -> 15

\* str.strip(): drop leading and trailing whitespace
RECURSIVE LStrip(_)
LStrip(s) == IF s # <<>> /\ Head(s) \in Whitespace THEN LStrip(Tail(s)) ELSE s
RECURSIVE RStrip(_)
RStrip(s) ==
    IF s # <<>> /\ s[Len(s)] \in Whitespace THEN RStrip(SubSeq(s, 1, Len(s) - 1)) ELSE s
Strip(s) == RStrip(LStrip(s))

\* if s.startswith('#'): s = s[1:]
DropHash(s) == IF s # <<>> /\ Head(s) = "#" THEN Tail(s) ELSE s

\* ''.join(ch*2 for ch in s)
RECURSIVE Doubled(_)
Doubled(s) == IF s = <<>> THEN <<>> ELSE <<Head(s), Head(s)>> \o Doubled(Tail(s))

\* int(x, 16) for a slice x of two characters: int() strips whitespace, takes
\* an optional sign and then needs hex digits only.  (A "0x" prefix needs a
\* digit after it, so it cannot occur in two characters.)
IntBase16(x) ==
    LET t == Strip(x)
    IN  IF Len(t) = 2 /\ t[1] \in HexDigits /\ t[2] \in HexDigits
          THEN [ok |-> TRUE, val |-> 16 * HexVal(t[1]) + HexVal(t[2])]
        ELSE IF Len(t) = 2 /\ t[1] \in Signs /\ t[2] \in HexDigits
          THEN [ok |-> TRUE, val |-> IF t[1] = "-" THEN 0 - HexVal(t[2]) ELSE HexVal(t[2])]
        ELSE IF Len(t) = 1 /\ t[1] \in HexDigits
          THEN [ok |-> TRUE, val |-> HexVal(t[1])]
        ELSE [ok |-> FALSE]

ParseHexColor(s) ==
    LET s1 == DropHash(Strip(s))
        s2 == IF Len(s1) = 3 THEN Doubled(s1) ELSE s1
    IN  IF Len(s2) # 6 THEN [st |-> "ValueError"]
        ELSE LET r == IntBase16(SubSeq(s2, 1, 2))
                 g == IntBase16(SubSeq(s2, 3, 4))
                 b == IntBase16(SubSeq(s2, 5, 6))
             IN  IF r.ok /\ g.ok /\ b.ok
                   THEN [st |-> "ok", rgb |-> <<r.val, g.val, b.val>>]
                   ELSE [st |-> "ValueError"]

ParseInit ==
    /\ hexStr \in UNION {[1..n -> Alphabet] : n \in 0..MaxHexLen}
    /\ hexOut = [st |-> "none"]
    /\ KeyIdle
    /\ DetectIdle
    /\ ResizeIdle
    /\ MainIdle

parse_hex_color ==
    /\ hexOut.st = "none"
    /\ hexOut' = ParseHexColor(hexStr)
    /\ UNCHANGED <<hexStr, keyVars, detectVars, resizeVars, mainVars>>

ParseNext == parse_hex_color

ParseSpec == ParseInit /\ [][ParseNext]_vars

----------------------------------------------------------------------------
(* color_distance_sq, make_bg_transparent *)

\* Colours along a staircase from black: (0,0,0), (1,0,0), (1,1,0), (1,1,1),
\* (2,1,1), ...; their mutual squared distances are 0, 1, 2, 3, 6, 9, 12, 17.
Color(k) == <<(k + 2) \div 3, (k + 1) \div 3, k \div 3>>
Colors == {Color(k) : k \in 0..MaxColor}
BgColors == {Color(0), Color(3)}
AlphaVals == {0, 77, 255}
Pixels == {<<c[1], c[2], c[3], a>> : c \in Colors, a \in AlphaVals}

Shapes == {s \in (1..MaxPix) \X (1..MaxPix) : s[1] * s[2] <= MaxPix}
Images ==
    UNION {[w : {s[1]}, h : {s[2]}, px : [1..(s[1] * s[2]) -> Pixels]] : s \in Shapes}

Sq(x) == x * x

color_distance_sq(a, b) == Sq(a[1] - b[1]) + Sq(a[2] - b[2]) + Sq(a[3] - b[3])

\* Mutant: the factor 3 applied to the tolerance before squaring.
TolSqTripledFirst(tol) == (tol * 3) * (tol * 3)

\* tol_sq = tolerance * tolerance * 3
TolSq(tol) == tol * tol * 3

\* floor(sqrt(n)) by bisection on lo <= sqrt(n) < hi
RECURSIVE ISqrtIn(_, _, _)
ISqrtIn(n, lo, hi) ==
    IF hi - lo <= 1 THEN lo
    ELSE LET mid == (lo + hi) \div 2
         IN  IF mid * mid <= n THEN ISqrtIn(n, mid, hi) ELSE ISqrtIn(n, lo, mid)
ISqrt(n) == ISqrtIn(n, 0, n + 1)

\* Mutant: the falloff inverted, closer to bg = more opaque.
ScaledAlphaInverted(a, distSq, tolSq) == a - ISqrt((a * a * distSq) \div tolSq)

\* new_alpha = int(a * (dist_sq / tol_sq) ** 0.5), for tol_sq > 0:
\* floor(a * sqrt(d / t)) = floor(sqrt(floor(a * a * d / t))).  For the
\* tolerances of the model (tol_sq <= 75) the double product a * ratio
\* truncates to this exact value.
ScaledAlpha(a, distSq, tolSq) == ISqrt((a * a * distSq) \div tolSq)

\* The pixel raises: a > 0, dist_sq <= tol_sq and the division dist_sq / tol_sq
\* has tol_sq = 0.
PixelRaises(p, b, tol) ==
    /\ p[4] # 0
    /\ color_distance_sq(<<p[1], p[2], p[3]>>, b) <= TolSq(tol)
    /\ TolSq(tol) = 0

\* Mutant: a hard mask that also makes every pixel outside the tolerance opaque.
KeyPixelHardMask(p, b, tol) ==
    IF p[4] = 0 THEN p
    ELSE IF color_distance_sq(<<p[1], p[2], p[3]>>, b) <= TolSq(tol)
         THEN <<p[1], p[2], p[3], 0>>
         ELSE <<p[1], p[2], p[3], 255>>

\* One iteration of the pixel loop that does not raise.
KeyPixel(p, b, tol) ==
    LET distSq == color_distance_sq(<<p[1], p[2], p[3]>>, b)
    IN  IF p[4] = 0 THEN p
        ELSE IF distSq <= TolSq(tol)
             THEN <<p[1], p[2], p[3], ScaledAlpha(p[4], distSq, TolSq(tol))>>
             ELSE p

KeyedImage(i, b, tol) ==
    [i EXCEPT !.px = [k \in DOMAIN i.px |-> KeyPixel(i.px[k], b, tol)]]

KeyInit ==
    /\ im \in Images
    /\ im0 = im
    /\ imPrev = im
    /\ bg \in BgColors
    /\ tolerance \in 0..MaxTol
    /\ passes = 0
    /\ keyErr = "none"
    /\ ParseIdle
    /\ DetectIdle
    /\ ResizeIdle
    /\ MainIdle

\* One call im = make_bg_transparent(im, bg, tolerance).  The loop works on
\* the copy im.convert('RGBA'); when a pixel raises, the copy is dropped and
\* the caller's image stays as it was.
make_bg_transparent ==
    /\ keyErr = "none"
    /\ passes < MaxPasses
    /\ imPrev' = im
    /\ passes' = passes + 1
    /\ IF \E k \in DOMAIN im.px : PixelRaises(im.px[k], bg, tolerance)
         THEN keyErr' = "ZeroDivisionError" /\ im' = im
         ELSE keyErr' = "none" /\ im' = KeyedImage(im, bg, tolerance)
    /\ UNCHANGED <<im0, bg, tolerance, parseVars, detectVars, resizeVars, mainVars>>

KeyNext == make_bg_transparent

KeySpec == KeyInit /\ [][KeyNext]_vars

----------------------------------------------------------------------------
(* detect_bg_color *)

CornerColor(k) == <<(k * 85) % 256, (k * 50 + 1) % 256, 255 - k * 7>>
CornerColors == {CornerColor(k) : k \in 0..MaxCornerColor}
CornerPixels == {<<c[1], c[2], c[3], a>> : c \in CornerColors, a \in {0, 255}}

\* corners = [(0,0), (w-1,0), (0,h-1), (w-1,h-1)]
Corners(w, h) == <<<<0, 0>>, <<w - 1, 0>>, <<0, h - 1>>, <<w - 1, h - 1>>>>
CornerSet(w, h) == {Corners(w, h)[k] : k \in 1..4}

\* Images by the pixels detect_bg_color reads: px maps each corner coordinate
\* to its pixel (coordinates coincide when w = 1 or h = 1).
CornerImages ==
    UNION {[w : {s[1]}, h : {s[2]}, px : [CornerSet(s[1], s[2]) -> CornerPixels]] :
           s \in (1..MaxSide) \X (1..MaxSide)}

\* colors: the (r, g, b) of px.getpixel((x, y)) for the four corners, in order
CornerSamples(i) ==
    [k \in 1..4 |-> LET p == i.px[Corners(i.w, i.h)[k]] IN <<p[1], p[2], p[3]>>]

CountIn(c, colors) == Cardinality({k \in DOMAIN colors : colors[k] = c})

\* Counter(colors): the distinct colours in order of first occurrence, with counts
RECURSIVE CounterItems(_, _)
CounterItems(colors, k) ==
    IF k > Len(colors) THEN <<>>
    ELSE IF \E j \in 1..(k - 1) : colors[j] = colors[k]
         THEN CounterItems(colors, k + 1)
         ELSE <<<<colors[k], CountIn(colors[k], colors)>>>> \o CounterItems(colors, k + 1)

\* Counter.most_common(): sorted by count, highest first, ties in insertion order
RECURSIVE MostCommonFrom(_, _)
MostCommonFrom(items, f) ==
    IF f = 0 THEN <<>>
    ELSE SelectSeq(items, LAMBDA it : it[2] = f) \o MostCommonFrom(items, f - 1)
MostCommon(colors) == MostCommonFrom(CounterItems(colors, 1), Len(colors))

RECURSIVE SumChannel(_, _)
SumChannel(cands, ch) ==
    IF cands = <<>> THEN 0 ELSE Head(cands)[1][ch] + SumChannel(Tail(cands), ch)

\* candidates = [c for c, f in cnt if f == max_freq]
Candidates(cnt) == SelectSeq(cnt, LAMBDA it : it[2] = cnt[1][2])

\* Mutant: a tie resolved by taking the first candidate.
FirstCandidate(cands) == cands[1][1]

\* the channel-wise average: sum(c[ch] for c in candidates) // len(candidates)
AverageColor(cands) ==
    <<SumChannel(cands, 1) \div Len(cands),
      SumChannel(cands, 2) \div Len(cands),
      SumChannel(cands, 3) \div Len(cands)>>

DetectedColor(i) ==
    LET cnt == MostCommon(CornerSamples(i))
        cands == Candidates(cnt)
    IN  IF cnt = <<>> THEN <<255, 255, 255>>
        ELSE IF Len(cands) = 1 THEN cands[1][1]
        ELSE AverageColor(cands)

DetectInit ==
    /\ cim \in CornerImages
    /\ detected = <<>>
    /\ ParseIdle
    /\ KeyIdle
    /\ ResizeIdle
    /\ MainIdle

detect_bg_color ==
    /\ cim # NoImage
    /\ detected = <<>>
    /\ detected' = <<DetectedColor(cim)>>
    /\ UNCHANGED <<cim, parseVars, keyVars, resizeVars, mainVars>>

DetectNext == detect_bg_color

DetectSpec == DetectInit /\ [][DetectNext]_vars

----------------------------------------------------------------------------
(* resize_and_pad *)

Max(a, b) == IF a >= b THEN a ELSE b

\* Mutant: max instead of min, the scale that fills the box and overflows it.
WidthBoundMax(w, h, tw, th) == tw * h >= th * w

\* scale = min(target_w / w, target_h / h), kept as the exact fraction
\* ScaleNum / ScaleDen: the width ratio is the minimum iff tw/w <= th/h.
WidthBound(w, h, tw, th) == tw * h <= th * w
ScaleNum(w, h, tw, th) == IF WidthBound(w, h, tw, th) THEN tw ELSE th
ScaleDen(w, h, tw, th) == IF WidthBound(w, h, tw, th) THEN w ELSE h

\* int(round(n / d)) for n >= 0, d > 0.  The quotient is a double: off a tie
\* it rounds to the nearest integer; on an exact tie (2 * (n % d) = d) the
\* double product w * scale may sit one ulp on either side of the half, so
\* round() can yield either neighbour.
RoundOutcomes(n, d) ==
    LET q == n \div d
        r == n % d
    IN  IF 2 * r < d THEN {q}
        ELSE IF 2 * r > d THEN {q + 1}
        ELSE {q, q + 1}

\* Mutant: the minimum of 1 left out.
NewDimUnclamped(side, num, den) == RoundOutcomes(side * num, den)

\* new_w = max(1, int(round(w * scale)))
NewDimOutcomes(side, num, den) ==
    {Max(1, v) : v \in RoundOutcomes(side * num, den)}

\* x = (target_w - new_w) // 2
PasteOffset(target, new) == (target - new) \div 2

ResizeInit ==
    /\ srcW \in 0..MaxDim
    /\ srcH \in 0..MaxDim
    /\ canvas = [st |-> "none"]
    /\ ParseIdle
    /\ KeyIdle
    /\ DetectIdle
    /\ MainIdle

resize_and_pad ==
    /\ canvas.st = "none"
    /\ IF srcW = 0 \/ srcH = 0
         THEN canvas' = [st |-> "ValueError"]
         ELSE LET num == ScaleNum(srcW, srcH, TARGET_W, TARGET_H)
                  den == ScaleDen(srcW, srcH, TARGET_W, TARGET_H)
              IN  \E nw \in NewDimOutcomes(srcW, num, den) :
                  \E nh \in NewDimOutcomes(srcH, num, den) :
                      canvas' = [st |-> "ok", size |-> <<TARGET_W, TARGET_H>>,
                                 newW |-> nw, newH |-> nh,
                                 x |-> PasteOffset(TARGET_W, nw),
                                 y |-> PasteOffset(TARGET_H, nh)]
    /\ UNCHANGED <<srcW, srcH, parseVars, keyVars, detectVars, mainVars>>

ResizeNext == resize_and_pad

ResizeSpec == ResizeInit /\ [][ResizeNext]_vars

----------------------------------------------------------------------------
(* main: file enumeration, the batch loop, the summary *)

VALID_EXTS == {".png", ".jpg", ".jpeg", ".webp", ".bmp", ".gif"}

\* An input file: the directory it lies in below the input path ("" is the
\* input path itself) and its name, split at the last dot into stem and suffix.
Dirs == {"", "sub"}
Stems == {"a", "b"}
Exts == {".png", ".jpg", ".PNG", ".txt"}
\* The input directory holds files of both stems, its subdirectory files of stem "a".
Paths == {p \in [dir : Dirs, stem : Stems, ext : Exts] : p.dir = "" \/ p.stem = "a"}

\* str.lower() on the suffixes of the model
Lower(e) == IF e = ".PNG" THEN ".png" ELSE e

\* p.suffix.lower() in VALID_EXTS
HasValidExt(p) == Lower(p.ext) \in VALID_EXTS

\* f.name: the base filename, extension included
BaseName(f) == [stem |-> f.stem, ext |-> f.ext]

\* rel = f.name if in_path.is_file() else f.relative_to(in_path).as_posix(),
\* as the sequence of its path components
Rel(f, kind) ==
    IF kind = "file" \/ f.dir = "" THEN <<BaseName(f)>> ELSE <<f.dir, BaseName(f)>>

\* dst = out_dir / Path(rel).name: the last component, directly under out_dir
Dst(rel) == rel[Len(rel)]

\* Mutant: the suffix put on the output directory, the file name lost.
WithSuffixNoName(name) == [stem |-> "", ext |-> ".png"]

\* dst_path.with_suffix('.png')
WithSuffixPng(name) == [stem |-> name.stem, ext |-> ".png"]

\* The path process_image saves to for input file f.
OutputPath(f, kind) == WithSuffixPng(Dst(Rel(f, kind)))

\* count after one iteration: count += 1 is reached iff process_image returned
CountAfter(c, ok) == IF ok THEN c + 1 ELSE c

\* Mutant: an exception leaves the loop.
IdxAfterAbort(i, ok) == IF ok THEN i + 1 ELSE Len(files) + 1

\* The loop position after one iteration: the except clause swallows the
\* exception and the for loop goes on to the next file.
IdxAfter(i, ok) == i + 1

Distinct(s) == \A i, j \in DOMAIN s : i # j => s[i] # s[j]

Listings == UNION {{s \in [1..n -> Paths] : Distinct(s)} : n \in 0..MaxListing}

MainInit ==
    /\ inKind \in {"file", "dir", "missing"}
    /\ listing \in Listings
    /\ inKind = "file" => Len(listing) = 1
    /\ inKind = "missing" => listing = <<>>
    /\ files = <<>>
    /\ idx = 1
    /\ count = 0
    /\ saved = <<>>
    /\ log = <<>>
    /\ pc = "enumerate"
    /\ ParseIdle
    /\ KeyIdle
    /\ DetectIdle
    /\ ResizeIdle

\* Lines 127-138: build files, or exit.
EnumerateFiles ==
    /\ pc = "enumerate"
    /\ LET fs == IF inKind = "file" THEN listing
                 ELSE IF inKind = "dir" THEN SelectSeq(listing, HasValidExt)
                 ELSE <<>>
       IN  /\ files' = fs
           /\ pc' = IF inKind = "missing" \/ fs = <<>> THEN "exit" ELSE "loop"
    /\ UNCHANGED <<inKind, listing, idx, count, saved, log>>
    /\ UNCHANGED <<parseVars, keyVars, detectVars, resizeVars>>

\* Lines 141-149: one iteration of the for loop.  ok says whether
\* process_image returned (its save done) or raised an Exception.
LoopIteration ==
    /\ pc = "loop"
    /\ idx <= Len(files)
    /\ \E ok \in BOOLEAN :
         LET f == files[idx]
             o == OutputPath(f, inKind)
         IN  /\ saved' = IF ok
                           THEN [q \in DOMAIN saved \cup {o} |-> IF q = o THEN f ELSE saved[q]]
                           ELSE saved
             /\ count' = CountAfter(count, ok)
             /\ log' = Append(log, IF ok THEN <<"Converted", f, o>> ELSE <<"Skipped", f>>)
             /\ idx' = IdxAfter(idx, ok)
    /\ UNCHANGED <<inKind, listing, files, pc>>
    /\ UNCHANGED <<parseVars, keyVars, detectVars, resizeVars>>

\* Line 151: the summary line after the loop.
Summary ==
    /\ pc = "loop"
    /\ idx > Len(files)
    /\ log' = Append(log, <<"Done", count>>)
    /\ pc' = "done"
    /\ UNCHANGED <<inKind, listing, files, idx, count, saved>>
    /\ UNCHANGED <<parseVars, keyVars, detectVars, resizeVars>>

MainNext == EnumerateFiles \/ LoopIteration \/ Summary

MainSpec == MainInit /\ [][MainNext]_vars

\* The program is one sequential thread: while a statement can run, it runs.
MainFairSpec == MainSpec /\ WF_vars(MainNext)

----------------------------------------------------------------------------
(* Properties of make_bg_transparent (KeySpec) *)

Rgb(p) == <<p[1], p[2], p[3]>>
KeyReturned == passes >= 1 /\ keyErr = "none"

C2_OutsideRadiusUnchanged ==
    KeyReturned =>
        \A k \in DOMAIN im.px :
            LET p == imPrev.px[k]
            IN  (p[4] > 0 /\ color_distance_sq(Rgb(p), bg) > tolerance * tolerance)
                    => im.px[k] = p

\* C2 amended: a pixel with alpha > 0 whose squared distance from bg exceeds
\* 3 * tolerance^2 keeps all four channels when make_bg_transparent returns.
C2_OutsideThresholdUnchanged ==
    KeyReturned =>
        \A k \in DOMAIN im.px :
            LET p == imPrev.px[k]
            IN  (p[4] > 0 /\ color_distance_sq(Rgb(p), bg) > 3 * tolerance * tolerance)
                    => im.px[k] = p

\* C2 witness: a pass with tolerance > 0 that changed one pixel and left a
\* visible pixel beyond the threshold as it was.
C2_Witness ==
    /\ KeyReturned /\ tolerance > 0
    /\ \E k, j \in DOMAIN im.px :
         /\ imPrev.px[k][4] > 0
         /\ color_distance_sq(Rgb(imPrev.px[k]), bg) > 3 * tolerance * tolerance
         /\ im.px[k] = imPrev.px[k]
         /\ im.px[j] # imPrev.px[j]

\* The image in which exactly the pixels with alpha > 0 and colour bg have alpha 0.
ExactMatchKeyed(i, b) ==
    [i EXCEPT !.px = [k \in DOMAIN i.px |->
        IF i.px[k][4] > 0 /\ Rgb(i.px[k]) = b
          THEN <<i.px[k][1], i.px[k][2], i.px[k][3], 0>>
          ELSE i.px[k]]]

\* C3: with tolerance = 0 a call of make_bg_transparent raises nothing, and its
\* result is the image unchanged or the image with exactly the visible pixels
\* of colour bg made fully transparent.
C3_ZeroToleranceSpecialCased ==
    (passes >= 1 /\ tolerance = 0) =>
        /\ keyErr = "none"
        /\ im = imPrev \/ im = ExactMatchKeyed(imPrev, bg)

\* C9: with tolerance > 0, a pixel with alpha > 0 whose RGB equals bg gets
\* alpha 0 and keeps its RGB channels.
C9_ExactMatchTransparent ==
    (KeyReturned /\ tolerance > 0) =>
        \A k \in DOMAIN im.px :
            LET p == imPrev.px[k]
            IN  (p[4] > 0 /\ Rgb(p) = bg) => im.px[k] = <<p[1], p[2], p[3], 0>>

\* C9 witness: an opaque pixel of colour bg that the first pass made transparent.
C9_Witness ==
    /\ passes = 1 /\ keyErr = "none" /\ tolerance > 0
    /\ \E k \in DOMAIN im.px :
         imPrev.px[k][4] = 255 /\ Rgb(imPrev.px[k]) = bg /\ im.px[k][4] = 0

----------------------------------------------------------------------------
(* Properties of resize_and_pad (ResizeSpec) *)

\* C5: for a source of width >= 1 and height >= 1 the call returns a canvas
\* of exactly 370 x 320 with the resized content inside it: 1 <= newW <= 370,
\* 1 <= newH <= 320, offsets x = (370 - newW) \div 2 >= 0 and
\* y = (320 - newH) \div 2 >= 0, x + newW <= 370 and y + newH <= 320.
C5_ContentInsideCanvas ==
    (canvas.st # "none" /\ srcW >= 1 /\ srcH >= 1) =>
        /\ canvas.st = "ok"
        /\ canvas.size = <<370, 320>>
        /\ 1 <= canvas.newW /\ canvas.newW <= 370
        /\ 1 <= canvas.newH /\ canvas.newH <= 320
        /\ canvas.x = (370 - canvas.newW) \div 2 /\ canvas.x >= 0
        /\ canvas.y = (320 - canvas.newH) \div 2 /\ canvas.y >= 0
        /\ canvas.x + canvas.newW <= 370
        /\ canvas.y + canvas.newH <= 320

\* C5 witness: a 10 x 1000 source, resized to 3 x 320 and centred.
C5_Witness ==
    /\ canvas.st = "ok" /\ srcW = 10 /\ srcH = 1000
    /\ canvas.newW = 3 /\ canvas.newH = 320 /\ canvas.x = 183 /\ canvas.y = 0

\* C6: with scale = min(370 / w, 320 / h) = sn / sd, the content size differs
\* from (w * scale, h * scale) by at most 1 pixel in each dimension, and a
\* 100 x 200 source gives content 160 x 320 at horizontal offset 105.
C6_AspectPreserved ==
    canvas.st = "ok" =>
        LET byW == 370 * srcH <= 320 * srcW
            sn == IF byW THEN 370 ELSE 320
            sd == IF byW THEN srcW ELSE srcH
            dw == canvas.newW * sd - srcW * sn
            dh == canvas.newH * sd - srcH * sn
        IN  /\ 0 - sd <= dw /\ dw <= sd
            /\ 0 - sd <= dh /\ dh <= sd
            /\ (srcW = 100 /\ srcH = 200) =>
                   canvas.newW = 160 /\ canvas.newH = 320 /\ canvas.x = 105

\* C6 witness: a source so narrow that w * scale rounds to 0 and the clamp
\* max(1, ...) sets the content width.
C6_Witness ==
    /\ canvas.st = "ok" /\ canvas.newW = 1 /\ canvas.newH = 320
    /\ 2 * srcW * 320 < srcH

----------------------------------------------------------------------------
(* Properties of parse_hex_color (ParseSpec) *)

\* The RGB triple of a body of 3 or 6 hex digits.
ExpectedRgb(body) ==
    LET six == IF Len(body) = 3
                 THEN <<body[1], body[1], body[2], body[2], body[3], body[3]>>
                 ELSE body
    IN  <<16 * HexVal(six[1]) + HexVal(six[2]),
          16 * HexVal(six[3]) + HexVal(six[4]),
          16 * HexVal(six[5]) + HexVal(six[6])>>

\* C7: after trimming whitespace and removing one leading '#', a string whose
\* length is neither 3 nor 6 or that holds a character that is no hex digit
\* fails with an error; a string of 3 or 6 hex digits returns the expected
\* triple, each channel in 0..255.
C7_RejectsMalformed ==
    hexOut.st # "none" =>
        LET body == DropHash(Strip(hexStr))
            wellFormed == /\ Len(body) \in {3, 6}
                          /\ \A k \in DOMAIN body : body[k] \in HexDigits
        IN  IF wellFormed
              THEN /\ hexOut.st = "ok"
                   /\ hexOut.rgb = ExpectedRgb(body)
                   /\ \A c \in 1..3 : hexOut.rgb[c] \in 0..255
              ELSE hexOut.st = "ValueError"

----------------------------------------------------------------------------
(* Properties of detect_bg_color (DetectSpec) *)

RECURSIVE SetSum(_, _)
SetSum(S, ch) ==
    IF S = {} THEN 0
    ELSE LET c == CHOOSE x \in S : TRUE IN c[ch] + SetSum(S \ {c}, ch)

\* C8: detect_bg_color returns the corner colour of strictly highest
\* frequency when there is one, and otherwise the channel-wise floor average
\* of all colours tied at the highest frequency; corner alpha plays no part.
C8_MostFrequentOrAverage ==
    detected # <<>> =>
        LET cs == Corners(cim.w, cim.h)
            rgbAt(k) == Rgb(cim.px[cs[k]])
            freq(c) == Cardinality({k \in 1..4 : rgbAt(k) = c})
            seen == {rgbAt(k) : k \in 1..4}
            top == {c \in seen : \A c2 \in seen : freq(c) >= freq(c2)}
            n == Cardinality(top)
        IN  IF n = 1
              THEN detected[1] \in top
              ELSE detected[1] = <<SetSum(top, 1) \div n,
                                   SetSum(top, 2) \div n,
                                   SetSum(top, 3) \div n>>

\* C8 witness: corners {A, A, B, B}; the result is the average, not A or B.
C8_Witness ==
    /\ detected # <<>>
    /\ cim.w = 2 /\ cim.h = 2
    /\ Rgb(cim.px[<<0, 0>>]) = CornerColor(0) /\ Rgb(cim.px[<<1, 0>>]) = CornerColor(1)
    /\ Rgb(cim.px[<<0, 1>>]) = CornerColor(1) /\ Rgb(cim.px[<<1, 1>>]) = CornerColor(0)
    /\ detected[1] = <<42, 26, 251>>

----------------------------------------------------------------------------
(* Properties of main (MainSpec, MainFairSpec) *)

ConvertedAt == {k \in DOMAIN log : log[k][1] = "Converted"}

\* Every file was attempted once, in list order, and the summary reports the
\* number of files whose process_image returned.
BatchComplete ==
    /\ pc = "done"
    /\ Len(log) = Len(files) + 1
    /\ \A k \in 1..Len(files) :
         log[k][1] \in {"Converted", "Skipped"} /\ log[k][2] = files[k]
    /\ log[Len(log)] = <<"Done", Cardinality(ConvertedAt)>>
    /\ count = Cardinality(ConvertedAt)

\* C4: whatever files fail, once the loop starts the run reaches the summary
\* with every file attempted exactly once in list order and the reported
\* count equal to the number of files processed without an exception.
C4_BatchNeverAborted == (pc = "loop") ~> BatchComplete

\* C4 witness: a batch of three whose first file failed and whose later files
\* were converted.
C4_Witness ==
    /\ BatchComplete
    /\ Len(files) = 3
    /\ log[1][1] = "Skipped" /\ log[2][1] = "Converted" /\ log[3][1] = "Converted"
    /\ count = 2

\* C10 as stated: converted files with different base filenames are saved to
\* different output paths, no saved output is replaced by a file of another
\* base filename, and there are as many output files as distinct base
\* filenames among the converted files.
C10_CollideOnlyOnBaseName ==
    /\ \A i, j \in ConvertedAt :
         BaseName(log[i][2]) # BaseName(log[j][2]) => log[i][3] # log[j][3]
    /\ \A i \in ConvertedAt : BaseName(saved[log[i][3]]) = BaseName(log[i][2])
    /\ Cardinality(DOMAIN saved) = Cardinality({BaseName(log[i][2]) : i \in ConvertedAt})

\* C10 amended: converted files whose base filenames differ before the
\* extension (different stems) are saved to different output paths, no saved
\* output is replaced by a file of another stem, and there are as many output
\* paths as distinct stems among the converted files.
C10_CollideOnlyOnStem ==
    /\ \A i, j \in ConvertedAt :
         log[i][2].stem # log[j][2].stem => log[i][3] # log[j][3]
    /\ \A i \in ConvertedAt : saved[log[i][3]].stem = log[i][2].stem
    /\ Cardinality(DOMAIN saved) = Cardinality({log[i][2].stem : i \in ConvertedAt})

\* C10 witness: three converted files, two of them a.jpg and a.png sharing
\* one output path, the third with another stem and its own output path.
C10_Witness ==
    /\ pc = "done" /\ count = 3
    /\ Cardinality(DOMAIN saved) = 2
    /\ \E i, j \in ConvertedAt :
         /\ log[i][2].dir = log[j][2].dir
         /\ log[i][2].stem = log[j][2].stem
         /\ log[i][2].ext = ".jpg" /\ log[j][2].ext = ".png"
         /\ log[i][3] = log[j][3]

====
